---- MODULE Spec2Model ----
(***************************************************************************)
(* DefaultAllocator of nalgebra (src/src/base/default_allocator.rs):       *)
(* allocate_from_iterator for the four (row kind, column kind) pairs and   *)
(* reallocate_copy for every (source kind, destination kind) pair.         *)
(*                                                                         *)
(* A dimension kind is "S" (Const<N> / DimName, known at compile time) or  *)
(* "D" (Dynamic, known at run time).  One call runs at a time (the code is *)
(* synchronous); its loops are modelled one iteration per step.            *)
(***************************************************************************)
EXTENDS Integers, Sequences, FiniteSets

\* ---------------------------------------------------------------- bounds
MaxDim == 2
MaxSeqLen == 5
\* How many times in a row the buffer the calling code owns is reallocated.
MaxRealloc == 2

Kinds == {"S", "D"}
Dims == 0..MaxDim
Blocks == {1, 2}
\* The elements a Vec can grow to before its allocation fails: more than any
\* shape or finite sequence of the model asks for.
MaxVecLen == MaxDim * MaxDim + MaxSeqLen

\* ------------------------------------------------------------ data model
\* The content of a slot that holds mem::MaybeUninit::uninit().
Uninit == -1
\* The fill value of the resizable buffer's own resize primitive.
Zero == 0

Min(a, b) == IF a < b THEN a ELSE b

\* The element sequence 1, 2, ..., n handed to an allocation.
Iota(n) == [i \in 1..n |-> i]

\* [[MaybeUninit::uninit(); R]; C]: R*C slots, none written.
UninitSlots(n) == [i \in 1..n |-> Uninit]

NoBuf == [storage |-> "none", rk |-> "S", ck |-> "S", nrows |-> 0, ncols |-> 0,
          data |-> <<>>, block |-> 0]

\* ArrayStorage<T, R, C>: inline, owns no heap block.
ArrayStorageOf(nrows, ncols, data) ==
    [storage |-> "ArrayStorage", rk |-> "S", ck |-> "S", nrows |-> nrows,
     ncols |-> ncols, data |-> data, block |-> 0]

\* VecStorage::new(nrows, ncols, data): the Vec and the two dimensions.
VecStorageNew(rk, ck, nrows, ncols, data, block) ==
    [storage |-> "VecStorage", rk |-> rk, ck |-> ck, nrows |-> nrows,
     ncols |-> ncols, data |-> data, block |-> block]

\* Which BaseAllocator impl the pair of dimension types selects.
AllocImpl_rowOnly(rk, ck) == IF rk = "S" THEN "static" ELSE "dynamic"
AllocImpl(rk, ck) == IF rk = "S" /\ ck = "S" THEN "static" ELSE "dynamic"

\* Which Reallocator impl the source and destination types select.
ReallocImpl(rkFrom, ckFrom, rkTo, ckTo) ==
    IF rkTo = "S" /\ ckTo = "S" THEN "to_static"
    ELSE IF rkFrom = "S" /\ ckFrom = "S" THEN "static_to_vec"
    ELSE "vec_to_vec"

\* ------------------------------------------------------------------ heap
\* The least heap block that is not allocated.
FreshBlock(h) == CHOOSE b \in Blocks : h[b] = "free" /\ \A c \in Blocks : h[c] = "free" => b <= c

\* A Vec allocates when its first element is pushed.
VecBlockOnPush(h, block) == IF block = 0 THEN FreshBlock(h) ELSE block

HeapOnPush(h, block) == IF block = 0 THEN [h EXCEPT ![FreshBlock(h)] = "live"] ELSE h

\* Dropping a buffer: a VecStorage releases its heap block, an ArrayStorage none.
DropBuffer(h, b) == IF b.block = 0 THEN h ELSE [h EXCEPT ![b.block] = "free"]

\* A release of a block that is not allocated.
BadFree(h, b) == b.block # 0 /\ h[b.block] # "live"

\* ------------------------------------------------------------ operations
VARIABLES
    own,      \* the buffer the calling code owns (NoBuf: none)
    nrealloc, \* how many reallocations that buffer went through
    heap,     \* heap block -> "free" | "live"
    heapErr,  \* a heap block was released while not allocated
    call      \* the call in progress, or the last one finished

vars == <<own, nrealloc, heap, heapErr, call>>

Finished == {"idle", "returned", "panicked", "exhausted"}

Idle == [op |-> "none", pc |-> "idle", rk |-> "S", ck |-> "S",
         nrows |-> 0, ncols |-> 0, input |-> <<>>, inf |-> FALSE, items |-> <<>>,
         res |-> NoBuf, count |-> 0, pulled |-> 0, buf |-> NoBuf, copied |-> 0,
         destroyed |-> {}, result |-> NoBuf]

Init ==
    /\ own = NoBuf
    /\ nrealloc = 0
    /\ heap = [b \in Blocks |-> "free"]
    /\ heapErr = FALSE
    /\ call = Idle

\* The iterator has a next element: repeat_with never ends.
HasNext(c) == c.inf \/ c.items # <<>>

\* The element next() yields: repeat_with(MaybeUninit::uninit) yields placeholders.
NextItem(c) == IF c.inf THEN Uninit ELSE Head(c.items)

Advance(c) == IF c.inf THEN c.items ELSE Tail(c.items)

\* Entry of allocate_from_iterator(nrows, ncols, iter) for the impl the kinds select.
EnterAlloc(c) ==
    IF AllocImpl(c.rk, c.ck) = "static"
    THEN [c EXCEPT !.pc = "fill", !.count = 0, !.pulled = 0,
                   !.res = ArrayStorageOf(c.nrows, c.ncols, UninitSlots(c.nrows * c.ncols))]
    ELSE [c EXCEPT !.pc = "collect", !.count = 0, !.pulled = 0,
                   !.res = VecStorageNew(c.rk, c.ck, c.nrows, c.ncols, <<>>, 0)]

\* The calling code asks for a buffer of shape (nrows, ncols) from a sequence.
AllocStart(rk, ck, nrows, ncols, n) ==
    /\ call.pc \in Finished
    /\ own = NoBuf
    /\ call' = EnterAlloc([Idle EXCEPT !.op = "alloc", !.rk = rk, !.ck = ck,
                                 !.nrows = nrows, !.ncols = ncols,
                                 !.input = Iota(n), !.items = Iota(n)])
    /\ UNCHANGED <<own, nrealloc, heap, heapErr>>

\* *res = MaybeUninit::new(e) for the count-th pair of the zip.
WriteSlot_reversed(data, count, e) == [data EXCEPT ![Len(data) - count] = e]
WriteSlot(data, count, e) == [data EXCEPT ![count + 1] = e]

\* One iteration of the static fill loop: zip takes a slot, then an element.
FillStep ==
    /\ call.pc = "fill"
    /\ call.count < Len(call.res.data)
    /\ HasNext(call)
    /\ call' = [call EXCEPT !.res.data = WriteSlot(call.res.data, call.count, NextItem(call)),
                            !.items = Advance(call),
                            !.count = call.count + 1,
                            !.pulled = call.pulled + 1]
    /\ UNCHANGED <<own, nrealloc, heap, heapErr>>

\* The zip ends: no slot is left, or the sequence is at its end.
FillDone ==
    /\ call.pc = "fill"
    /\ ~(call.count < Len(call.res.data) /\ HasNext(call))
    /\ call' = [call EXCEPT !.pc = "assert_static"]
    /\ UNCHANGED <<own, nrealloc, heap, heapErr>>

\* assert!(count == nrows.value() * ncols.value(), ...)
StaticAssertOk_always(count, nrows, ncols) == TRUE
StaticAssertOk(count, nrows, ncols) == count = nrows * ncols

\* assert!(res.len() == nrows.value() * ncols.value(), ...)
DynAssertOk_atLeast(len, nrows, ncols) == len >= nrows * ncols
DynAssertOk(len, nrows, ncols) == len = nrows * ncols

\* A panic unwinds: the locals of the call (res, and buf in reallocate_copy) drop.
Unwound(status) ==
    /\ call' = [call EXCEPT !.pc = status, !.res = NoBuf, !.result = NoBuf]
    /\ heap' = DropBuffer(DropBuffer(heap, call.res), call.buf)
    /\ heapErr' = (heapErr \/ BadFree(heap, call.res) \/ BadFree(heap, call.buf))
    /\ UNCHANGED <<own, nrealloc>>

\* allocate_from_iterator returns res: to the calling code, or to reallocate_copy.
Allocated ==
    IF call.op = "alloc"
    THEN /\ call' = [call EXCEPT !.pc = "returned", !.result = call.res, !.res = NoBuf]
         /\ own' = call.res
         /\ nrealloc' = 0
         /\ UNCHANGED <<heap, heapErr>>
    ELSE /\ call' = [call EXCEPT !.pc = "copy"]
         /\ UNCHANGED <<own, nrealloc, heap, heapErr>>

StaticAssert ==
    /\ call.pc = "assert_static"
    /\ IF StaticAssertOk(call.count, call.nrows, call.ncols)
       THEN Allocated
       ELSE Unwound("panicked")

\* One element of it.collect(): next() yields and the Vec takes it.
CollectStep ==
    /\ call.pc = "collect"
    /\ HasNext(call)
    /\ Len(call.res.data) < MaxVecLen
    /\ call' = [call EXCEPT !.res.data = Append(call.res.data, NextItem(call)),
                            !.res.block = VecBlockOnPush(heap, call.res.block),
                            !.items = Advance(call),
                            !.pulled = call.pulled + 1]
    /\ heap' = HeapOnPush(heap, call.res.block)
    /\ UNCHANGED <<own, nrealloc, heapErr>>

\* The sequence still yields and no memory is left for the Vec: the call fails
\* without a result.  collect() of a sequence that never ends has no other end.
CollectExhaust ==
    /\ call.pc = "collect"
    /\ HasNext(call)
    /\ Len(call.res.data) >= MaxVecLen
    /\ Unwound("exhausted")

\* The sequence is at its end: collect returns the Vec.
CollectDone ==
    /\ call.pc = "collect"
    /\ ~HasNext(call)
    /\ call' = [call EXCEPT !.pc = "assert_dyn"]
    /\ UNCHANGED <<own, nrealloc, heap, heapErr>>

DynAssert ==
    /\ call.pc = "assert_dyn"
    /\ IF DynAssertOk(Len(call.res.data), call.nrows, call.ncols)
       THEN Allocated
       ELSE Unwound("panicked")

\* ptr::copy_nonoverlapping(buf.ptr(), res.ptr_mut() as *mut T, n): the first n
\* slots of dst take the content of the first n slots of src, bit for bit.
CopyNonoverlapping_oneShort(src, dst, n) ==
    [i \in 1..Len(dst) |-> IF i <= n - 1 THEN src[i] ELSE dst[i]]
CopyNonoverlapping(src, dst, n) ==
    [i \in 1..Len(dst) |-> IF i <= n THEN src[i] ELSE dst[i]]

\* cmp::min(len_from, len_to) with len_from from buf.shape().
CopyCount(buf, rto, cto) == Min(buf.nrows * buf.ncols, rto * cto)

\* The buffer's own resize-to-sz primitive: truncate, or extend with the fill value.
Resize(data, sz) ==
    [i \in 1..sz |-> IF i <= Len(data) THEN data[i] ELSE Zero]

\* The heap block of the resized Vec: the old one, a new one if it had none.
ResizeBlock(h, block, sz) == IF sz > 0 THEN VecBlockOnPush(h, block) ELSE block

ResizeHeap(h, block, sz) == IF sz > 0 THEN HeapOnPush(h, block) ELSE h

\* let new_buf = buf.resize(rto.value() * cto.value()); VecStorage::new(rto, cto, new_buf)
ReallocInPlace_sum(rk, ck, rto, cto, buf, block) ==
    VecStorageNew(rk, ck, rto, cto, Resize(buf.data, rto + cto), block)
ReallocInPlace(rk, ck, rto, cto, buf, block) ==
    VecStorageNew(rk, ck, rto, cto, Resize(buf.data, rto * cto), block)

\* The slots of buf whose element is destroyed when buf goes out of scope.
DroppedElems(buf) == 1..Len(buf.data)

\* The heap once buf, owned by reallocate_copy and never moved out, leaves scope.
HeapAtScopeEnd_forget(h, buf) == h
HeapAtScopeEnd(h, buf) == DropBuffer(h, buf)

\* The calling code hands the buffer of a slot to reallocate_copy(rto, cto, buf).
ReallocStart(rk, ck, rto, cto) ==
    /\ call.pc \in Finished
    /\ own # NoBuf
    /\ nrealloc < MaxRealloc
    /\ LET c == [Idle EXCEPT !.op = "realloc", !.rk = rk, !.ck = ck,
                             !.nrows = rto, !.ncols = cto, !.inf = TRUE, !.buf = own]
       IN call' = IF ReallocImpl(own.rk, own.ck, rk, ck) = "vec_to_vec"
                  THEN [c EXCEPT !.pc = "resize"]
                  ELSE EnterAlloc(c)
    /\ own' = NoBuf
    /\ nrealloc' = nrealloc + 1
    /\ UNCHANGED <<heap, heapErr>>

\* Steps 2 and 3 of the block-copy path.
BlockCopy ==
    /\ call.pc = "copy"
    /\ LET n == CopyCount(call.buf, call.nrows, call.ncols)
       IN call' = [call EXCEPT !.pc = "ret", !.copied = n,
                               !.res.data = CopyNonoverlapping(call.buf.data, call.res.data, n)]
    /\ UNCHANGED <<own, nrealloc, heap, heapErr>>

\* res.assume_init() is returned; buf leaves scope.
ReallocReturn ==
    /\ call.pc = "ret"
    /\ call' = [call EXCEPT !.pc = "returned", !.result = call.res, !.res = NoBuf,
                            !.destroyed = DroppedElems(call.buf)]
    /\ own' = call.res
    /\ heap' = HeapAtScopeEnd(heap, call.buf)
    /\ heapErr' = (heapErr \/ (heap' # heap /\ BadFree(heap, call.buf)))
    /\ UNCHANGED nrealloc

\* The resizable -> resizable path: the old Vec is resized and wrapped.
ReallocResize ==
    /\ call.pc = "resize"
    /\ LET sz == call.nrows * call.ncols
           new == ReallocInPlace(call.rk, call.ck, call.nrows, call.ncols, call.buf,
                                 ResizeBlock(heap, call.buf.block, sz))
       IN /\ call' = [call EXCEPT !.pc = "returned", !.result = new,
                                  !.copied = Min(Len(call.buf.data), Len(new.data))]
          /\ own' = new
          /\ heap' = ResizeHeap(heap, call.buf.block, sz)
    /\ UNCHANGED <<nrealloc, heapErr>>

\* The calling code lets a buffer go out of scope.
Discard ==
    /\ call.pc \in Finished
    /\ own # NoBuf
    /\ own' = NoBuf
    /\ nrealloc' = 0
    /\ heap' = DropBuffer(heap, own)
    /\ heapErr' = (heapErr \/ BadFree(heap, own))
    /\ UNCHANGED call

Next ==
    \/ \E rk \in Kinds, ck \in Kinds, nrows \in Dims, ncols \in Dims, n \in 0..MaxSeqLen :
            AllocStart(rk, ck, nrows, ncols, n)
    \/ FillStep
    \/ FillDone
    \/ StaticAssert
    \/ CollectStep
    \/ CollectExhaust
    \/ CollectDone
    \/ DynAssert
    \/ \E rk \in Kinds, ck \in Kinds, rto \in Dims, cto \in Dims :
            ReallocStart(rk, ck, rto, cto)
    \/ BlockCopy
    \/ ReallocReturn
    \/ ReallocResize
    \/ Discard

Spec == Init /\ [][Next]_vars

\* ---------------------------------------------------------------- claims
Ended == {"returned", "panicked", "exhausted"}

Static(rk, ck) == rk = "S" /\ ck = "S"

\* Steps 1 to 4 of reallocate_copy on a destination of rto*cto placeholder slots.
GenericRealloc(buf, rto, cto) ==
    CopyNonoverlapping(buf.data, UninitSlots(rto * cto), CopyCount(buf, rto, cto))

\* C1: for every kind pair and shape, allocate_from_iterator on a sequence of
\* exactly nrows*ncols elements returns a buffer of that shape whose elements in
\* storage order are the sequence, element for element.
C1_AllocStoresSequence ==
    (call.op = "alloc" /\ call.pc \in Ended /\ Len(call.input) = call.nrows * call.ncols)
        => /\ call.pc = "returned"
           /\ call.result.nrows = call.nrows
           /\ call.result.ncols = call.ncols
           /\ call.result.data = call.input

C1_Witness ==
    /\ call.op = "alloc" /\ call.pc = "returned"
    /\ call.rk = "D" /\ call.ck = "S"
    /\ call.nrows = 2 /\ call.ncols = 2
    /\ call.result.data = <<1, 2, 3, 4>>

\* C2 as stated: for every kind pair, a sequence whose length differs from
\* nrows*ncols (shorter or longer) makes allocate_from_iterator fail fatally, and
\* no buffer is returned.
C2_AnyMismatchFails ==
    (call.op = "alloc" /\ call.pc \in Ended /\ Len(call.input) # call.nrows * call.ncols)
        => call.pc = "panicked" /\ call.result = NoBuf

\* C2 as amended: a shorter sequence fails fatally for every kind pair; a longer
\* one fails fatally when a dimension is dynamic, and for static x static returns
\* the buffer of the first nrows*ncols elements.
C2_MismatchFailsUnlessStaticLonger ==
    (call.op = "alloc" /\ call.pc \in Ended /\ Len(call.input) # call.nrows * call.ncols)
        => IF Static(call.rk, call.ck) /\ Len(call.input) > call.nrows * call.ncols
           THEN /\ call.pc = "returned"
                /\ call.result.data = SubSeq(call.input, 1, call.nrows * call.ncols)
           ELSE call.pc = "panicked" /\ call.result = NoBuf

C2_Witness ==
    /\ call.op = "alloc" /\ call.pc = "panicked"
    /\ call.rk = "D" /\ call.ck = "D"
    /\ call.nrows = 2 /\ call.ncols = 2
    /\ Len(call.input) = 5

\* C3: for every (source kind, destination kind) pair, reallocate_copy returns a
\* buffer of shape (new_rows, new_cols) whose first min(old length, new length)
\* elements are the old buffer's first elements in the same order.
C3_ReallocKeepsPrefix ==
    (call.op = "realloc" /\ call.pc \in Ended)
        => /\ call.pc = "returned"
           /\ call.result.nrows = call.nrows
           /\ call.result.ncols = call.ncols
           /\ \A i \in 1..Min(call.buf.nrows * call.buf.ncols, call.nrows * call.ncols) :
                call.result.data[i] = call.buf.data[i]

\* C4 as stated: no buffer the calling code holds has a slot that was never
\* written.
C4_NoUninitReturned ==
    \A i \in 1..Len(own.data) : own.data[i] # Uninit

\* C4 as amended: a buffer returned by allocate_from_iterator has every slot
\* written; in a buffer returned by reallocate_copy each of the first
\* min(old length, new length) slots is written if the old buffer's slot was,
\* and the slots beyond them may never have been written.
C4_OnlyGrownTailUnwritten ==
    /\ (call.op = "alloc" /\ call.pc = "returned")
          => \A i \in 1..Len(call.result.data) : call.result.data[i] # Uninit
    /\ (call.op = "realloc" /\ call.pc = "returned")
          => /\ call.copied = Min(Len(call.buf.data), Len(call.result.data))
             /\ \A i \in 1..call.copied :
                    call.buf.data[i] # Uninit => call.result.data[i] # Uninit

C4_Witness ==
    /\ call.op = "realloc" /\ call.pc = "returned"
    /\ call.buf.data = <<1, 2>>
    /\ call.result.data = <<1, 2, Uninit, Uninit>>
    /\ own = call.result

\* C5: every call ends after a number of steps bounded by the shape sizes: none
\* runs out of memory, and reallocate_copy takes no more placeholders from its
\* unbounded sequence than the destination has slots.
C5_CallsBounded ==
    /\ call.pc # "exhausted"
    /\ call.op = "realloc" => call.pulled <= call.nrows * call.ncols

\* C6: a returned buffer is inline (ArrayStorage) exactly when both requested
\* dimensions are static and resizable (VecStorage) otherwise, whatever the sizes
\* and whatever the storage of the source buffer.
C6_StorageByKinds ==
    call.pc = "returned"
        => /\ call.result.storage = "ArrayStorage" <=> Static(call.rk, call.ck)
           /\ call.result.storage = "VecStorage" <=> ~Static(call.rk, call.ck)
           /\ call.result.rk = call.rk
           /\ call.result.ck = call.ck

C6_Witness ==
    /\ call.op = "realloc" /\ call.pc = "returned"
    /\ call.buf.storage = "VecStorage"
    /\ call.result.storage = "ArrayStorage"
    /\ call.nrows = 2 /\ call.ncols = 1

\* The buffers alive now that own heap block b.
Owners(b) ==
    (IF own.block = b THEN 1 ELSE 0)
    + (IF call.pc \notin Finished /\ call.res.block = b THEN 1 ELSE 0)
    + (IF call.pc \notin Finished /\ call.buf.block = b THEN 1 ELSE 0)

\* C7: no heap block is released twice, every allocated block has exactly one
\* owner among the live buffers (none leaked, none shared), and once
\* reallocate_copy has returned the old buffer's block is released or is the
\* block of the returned buffer.
C7_HeapReleasedOnce ==
    /\ ~heapErr
    /\ \A b \in Blocks : Owners(b) = (IF heap[b] = "live" THEN 1 ELSE 0)
    /\ (call.op = "realloc" /\ call.pc = "returned" /\ own = call.result
            /\ call.buf.block # 0)
          => \/ own.block = call.buf.block
             \/ heap[call.buf.block] = "free"

C7_Witness ==
    /\ call.op = "realloc" /\ call.pc = "returned"
    /\ call.buf.storage = "VecStorage" /\ call.buf.block # 0
    /\ call.result.storage = "ArrayStorage"
    /\ own = call.result
    /\ heap[call.buf.block] = "free"

\* C8: every returned buffer holds exactly rows*columns elements, its rows and
\* columns being the requested ones.
C8_LengthIsProduct ==
    /\ call.pc = "returned"
          => /\ call.result.nrows = call.nrows
             /\ call.result.ncols = call.ncols
             /\ Len(call.result.data) = call.result.nrows * call.result.ncols
    /\ Len(own.data) = own.nrows * own.ncols

C8_Witness ==
    /\ call.op = "realloc" /\ call.pc = "returned"
    /\ call.result.storage = "VecStorage"
    /\ Len(call.buf.data) = 4
    /\ call.nrows = 1 /\ call.ncols = 2
    /\ Len(call.result.data) = 2

\* C9: from a resizable source to a resizable destination, the in-place path
\* gives the shape, the length and the first min(old length, new length)
\* elements that steps 1 to 4 give.
C9_InPlaceEqualsGeneric ==
    (call.op = "realloc" /\ call.pc = "returned"
        /\ call.buf.storage = "VecStorage" /\ ~Static(call.rk, call.ck))
        => LET g == GenericRealloc(call.buf, call.nrows, call.ncols)
           IN /\ call.result.nrows = call.nrows
              /\ call.result.ncols = call.ncols
              /\ Len(call.result.data) = Len(g)
              /\ \A i \in 1..CopyCount(call.buf, call.nrows, call.ncols) :
                    call.result.data[i] = g[i]

C9_Witness ==
    /\ call.op = "realloc" /\ call.pc = "returned"
    /\ call.buf.storage = "VecStorage" /\ call.result.storage = "VecStorage"
    /\ call.buf.data = <<1, 2>>
    /\ call.result.data = <<1, 2, Zero, Zero>>

\* C10: when a block-copy reallocate_copy returns, every element of the old
\* buffer has one owner: a copied element is not destroyed with the old buffer,
\* an element not copied is.
C10_OneOwnerPerElement ==
    (call.op = "realloc" /\ call.pc = "returned"
        /\ (Static(call.rk, call.ck) \/ Static(call.buf.rk, call.buf.ck)))
        => \A i \in 1..Len(call.buf.data) :
              /\ i <= call.copied => i \notin call.destroyed
              /\ i > call.copied => i \in call.destroyed

====
